---------------------------- MODULE Spec2Model ----------------------------
(***************************************************************************)
(* A model of the PaintBoard controller (src/src/utils/paintBoard.ts) and  *)
(* of the collaborators it drives: the History timeline, the Layer         *)
(* registry, the element variants (FreeLine, CleanLine, TextElement), the  *)
(* geometry helpers and the persistent store.                              *)
(*                                                                         *)
(* Every PaintBoard method is an operator from board state to board state  *)
(* (a record with one field per field of the object, plus the store and   *)
(* the drawing context's accumulated translation); every action applies    *)
(* one method to the current state.  JavaScript indices are kept as they   *)
(* are in the source (0-based, -1 for "none"); sequences are 1-based, so   *)
(* element i of a stack is stack[i + 1].                                   *)
(***************************************************************************)
EXTENDS Integers, Sequences, FiniteSets, TLC

VARIABLES
    cacheQueue,              \* History: the timeline, a sequence of element stacks
    step,                    \* History: the cursor into cacheQueue (1-based)
    layer,                   \* Layer registry: [stack, current]
    originPosition,          \* last pan pointer position ({x: 0, y: 0} when idle)
    originTranslate,         \* pan offset
    currentLineColor,
    currentLineWidth,
    cleanWidth,
    version,
    currentMoveEle,          \* the active stroke: a reference into cacheQueue
    mouseHoverElementIndex,
    selectElementIndex,
    resizeMousePos,
    resizeType,
    tempCache,               \* deep copy of the stack taken at pointer-down, or NoCache
    isCurrentChange,
    storage,                 \* the record under BOARD_STORAGE_KEY
    ctxTranslate,            \* translation accumulated on the drawing context
    threw,                   \* the last handler ended with a TypeError
    lastCmd,                 \* observer: the handler that ran last
    obs,                     \* observer: what the claims need of the past
    view                     \* observer: what a specification has it keep

vars == <<cacheQueue, step, layer, originPosition, originTranslate,
          currentLineColor, currentLineWidth, cleanWidth, version,
          currentMoveEle, mouseHoverElementIndex, selectElementIndex,
          resizeMousePos, resizeType, tempCache, isCurrentChange,
          storage, ctxTranslate, threw, lastCmd, obs, view>>

----------------------------------------------------------------------------
(* Bounds of the model *)

MaxTimeline == 3
MaxStack == 2
MaxPoints == 2
MaxDrags == 2
MaxDragDowns == 3
MaxHistSteps == 8
MaxStoreSteps == 5
MaxPairs == 2
MaxPan == 1
MaxSurface == 3
MaxPanSteps == 5
MaxDrawSteps == 6
MaxSelectSteps == 6
MaxTextSteps == 5

----------------------------------------------------------------------------
(* Constants of the program *)

FREE_LINE == "freeLine"
CLEAN_LINE == "cleanLine"
TEXT == "text"

RESIZE_NULL == "null"
RESIZE_BODY == "body"
RESIZE_TOP_LEFT == "topLeft"
RESIZE_TOP_RIGHT == "topRight"
RESIZE_BOTTOM_LEFT == "bottomLeft"
RESIZE_BOTTOM_RIGHT == "bottomRight"

CurrentVersion == "0.2.0"
LegacyVersion == "0.1.0"
DefaultColor == "#000000"
CommonWidthW4 == 4
CommonWidthW5 == 5
CanvasLeft == 2
CanvasTop == 3
HitDistance == 10
HandleMargin == 2
DefaultLayerId == 1

Null == [null |-> TRUE]
NoEle == [q |-> 0, i |-> 0]
DetachedEle == [q |-> -1, i |-> 0]
NoCache == [has |-> FALSE, stack |-> <<>>]
SomeCache(stack) == [has |-> TRUE, stack |-> stack]

Pt(x, y) == [x |-> x, y |-> y]
Rect(x, y, w, h) == [x |-> x, y |-> y, width |-> w, height |-> h]

Min2(a, b) == IF a < b THEN a ELSE b
Max2(a, b) == IF a > b THEN a ELSE b

----------------------------------------------------------------------------
(* Elements *)

RECURSIVE BoundsOf(_, _)
BoundsOf(positions, k) ==
    IF k = 1
    THEN [minX |-> positions[1].x, maxX |-> positions[1].x,
          minY |-> positions[1].y, maxY |-> positions[1].y]
    ELSE LET b == BoundsOf(positions, k - 1)
             p == positions[k]
         IN [minX |-> Min2(b.minX, p.x), maxX |-> Max2(b.maxX, p.x),
             minY |-> Min2(b.minY, p.y), maxY |-> Max2(b.maxY, p.y)]

RectOfPositions(positions) ==
    IF positions = <<>>
    THEN Rect(0, 0, 0, 0)
    ELSE LET b == BoundsOf(positions, Len(positions))
         IN Rect(b.minX, b.minY, b.maxX - b.minX, b.maxY - b.minY)

NewFreeLine(color, width, layerId) ==
    [type |-> FREE_LINE, layer |-> layerId, color |-> color, width |-> width,
     positions |-> <<>>, rect |-> Rect(0, 0, 0, 0), value |-> ""]

NewCleanLine(width, layerId) ==
    [type |-> CLEAN_LINE, layer |-> layerId, color |-> "", width |-> width,
     positions |-> <<>>, rect |-> Rect(0, 0, 0, 0), value |-> ""]

NewTextElement(layerId, value, rect) ==
    [type |-> TEXT, layer |-> layerId, color |-> "", width |-> 0,
     positions |-> <<>>, rect |-> rect, value |-> value]

addPosition(ele, p) ==
    LET ps == Append(ele.positions, p)
    IN [ele EXCEPT !.positions = ps, !.rect = RectOfPositions(ps)]

moveFreeLine(ele, dx, dy) ==
    LET ps == [k \in 1..Len(ele.positions) |->
                  Pt(ele.positions[k].x + dx, ele.positions[k].y + dy)]
    IN [ele EXCEPT !.positions = ps,
                   !.rect = [@ EXCEPT !.x = @ + dx, !.y = @ + dy]]


(* A scale factor as the source computes it, (dimension +- delta) / dimension,
   kept as the pair of its operands: the quotient is exact, and a zero
   denominator (Infinity or NaN in the source) stays visible. *)
Scale(num, den) == [num |-> num, den |-> den]

ScaleCoord(anchor, c, s) ==
    IF s.den = 0 THEN c ELSE anchor + (((c - anchor) * s.num) \div s.den)

AnchorX(rect, type) ==
    IF type \in {RESIZE_BOTTOM_RIGHT, RESIZE_TOP_RIGHT}
    THEN rect.x ELSE rect.x + rect.width

AnchorY(rect, type) ==
    IF type \in {RESIZE_BOTTOM_RIGHT, RESIZE_BOTTOM_LEFT}
    THEN rect.y ELSE rect.y + rect.height

resizeFreeLine(ele, scaleX, scaleY, rect, type) ==
    LET ax == AnchorX(rect, type)
        ay == AnchorY(rect, type)
        ps == [k \in 1..Len(ele.positions) |->
                  Pt(ScaleCoord(ax, ele.positions[k].x, scaleX),
                     ScaleCoord(ay, ele.positions[k].y, scaleY))]
    IN [ele EXCEPT !.positions = ps, !.rect = RectOfPositions(ps)]

resizeTextElement(ele, width, height, type) ==
    LET r == ele.rect
        nx == IF type \in {RESIZE_TOP_LEFT, RESIZE_BOTTOM_LEFT}
              THEN r.x + (r.width - width) ELSE r.x
        ny == IF type \in {RESIZE_TOP_LEFT, RESIZE_TOP_RIGHT}
              THEN r.y + (r.height - height) ELSE r.y
    IN [ele EXCEPT !.rect = Rect(nx, ny, width, height)]

----------------------------------------------------------------------------
(* Geometry and hit-testing *)

DistSq(p, q) == (p.x - q.x) * (p.x - q.x) + (p.y - q.y) * (p.y - q.y)

(* getDistance(p, q) < 10 *)
NearPoint(p, q) == DistSq(p, q) < HitDistance * HitDistance

(* getPositionToLineDistance(p, a, b) < 10: the perpendicular distance when
   the foot of the perpendicular is on the segment, else the distance to the
   nearer end. *)
NearLine(p, a, b) ==
    LET len2 == DistSq(a, b)
        dot == (p.x - a.x) * (b.x - a.x) + (p.y - a.y) * (b.y - a.y)
        cross == (p.x - a.x) * (b.y - a.y) - (p.y - a.y) * (b.x - a.x)
    IN IF len2 = 0 \/ dot <= 0 THEN NearPoint(p, a)
       ELSE IF dot >= len2 THEN NearPoint(p, b)
       ELSE cross * cross < HitDistance * HitDistance * len2

isInsideRect(p, rect) ==
    /\ rect.x <= p.x /\ p.x <= rect.x + rect.width
    /\ rect.y <= p.y /\ p.y <= rect.y + rect.height

Abs(n) == IF n < 0 THEN -n ELSE n

NearCorner(p, cx, cy) ==
    Abs(p.x - cx) <= HandleMargin /\ Abs(p.y - cy) <= HandleMargin

getResizeType(p, rect) ==
    IF NearCorner(p, rect.x, rect.y) THEN RESIZE_TOP_LEFT
    ELSE IF NearCorner(p, rect.x + rect.width, rect.y) THEN RESIZE_TOP_RIGHT
    ELSE IF NearCorner(p, rect.x, rect.y + rect.height) THEN RESIZE_BOTTOM_LEFT
    ELSE IF NearCorner(p, rect.x + rect.width, rect.y + rect.height)
         THEN RESIZE_BOTTOM_RIGHT
    ELSE IF isInsideRect(p, rect) THEN RESIZE_BODY
    ELSE RESIZE_NULL

(* The body of the loop over a stroke's segments in moveSelectElement. *)
FreeLineHit(p, ele) ==
    \E k \in 2..Len(ele.positions) :
        /\ NearPoint(p, ele.positions[k - 1]) \/ NearPoint(p, ele.positions[k])
        /\ NearLine(p, ele.positions[k - 1], ele.positions[k])

(* The switch of the hover scan: strokes by distance, text by containment,
   eraser strokes never. *)
ElementHit(p, ele) ==
    IF ele.type = FREE_LINE THEN FreeLineHit(p, ele)
    ELSE IF ele.type = TEXT THEN isInsideRect(p, ele.rect)
    ELSE FALSE

----------------------------------------------------------------------------
(* Layer registry *)

NewLayer(initData) ==
    IF initData = Null
    THEN [stack |-> <<[id |-> DefaultLayerId, show |-> TRUE]>>,
          current |-> DefaultLayerId]
    ELSE initData

(* findIndex over layer.stack: 0-based, -1 when no layer has the id. *)
RECURSIVE FindFrom(_, _, _)
FindFrom(stack, id, k) ==
    IF k > Len(stack) THEN -1
    ELSE IF stack[k].id = id THEN k - 1
    ELSE FindFrom(stack, id, k + 1)

LayerIndex(lay, id) == FindFrom(lay.stack, id, 1)

showLayerIds(lay) ==
    {lay.stack[k].id : k \in {j \in 1..Len(lay.stack) : lay.stack[j].show}}

LayerToggleShow(lay, id) ==
    [lay EXCEPT !.stack = [k \in 1..Len(lay.stack) |->
        IF lay.stack[k].id = id
        THEN [lay.stack[k] EXCEPT !.show = ~@]
        ELSE lay.stack[k]]]

LayerSetCurrent(lay, id) == [lay EXCEPT !.current = id]

----------------------------------------------------------------------------
(* History: a timeline of element stacks with a cursor.  The stacks of the
   timeline are values of their own (no element is shared between two
   entries); currentMoveEle, the one reference the board keeps into the
   timeline, is a place [q: entry, i: position] that the operations keep
   pointing at the same element, or DetachedEle once its entry is dropped. *)

getCurrentStack(w) == w.cacheQueue[w.step]

(* A record written before layers existed: every element goes to the one
   default layer. *)
Migrate(stack, ver) ==
    IF ver = LegacyVersion
    THEN [k \in 1..Len(stack) |-> [stack[k] EXCEPT !.layer = DefaultLayerId]]
    ELSE stack

DropFuture(ref, cursor) == IF ref.q > cursor THEN DetachedEle ELSE ref

HistoryAdd(w, ele) ==
    [w EXCEPT !.cacheQueue = Append(SubSeq(w.cacheQueue, 1, w.step),
                                    Append(getCurrentStack(w), ele)),
              !.step = w.step + 1,
              !.currentMoveEle = DropFuture(@, w.step)]

HistoryUndo(w) == IF w.step > 1 THEN [w EXCEPT !.step = @ - 1] ELSE w

HistoryRedo(w) ==
    IF w.step < Len(w.cacheQueue) THEN [w EXCEPT !.step = @ + 1] ELSE w

HistoryClean(w) ==
    [w EXCEPT !.cacheQueue = Append(SubSeq(w.cacheQueue, 1, w.step), <<>>),
              !.step = w.step + 1,
              !.currentMoveEle = DropFuture(@, w.step)]

RemoveAt(stack, index) ==
    IF index + 1 \in 1..Len(stack)
    THEN SubSeq(stack, 1, index) \o SubSeq(stack, index + 2, Len(stack))
    ELSE stack

HistoryDeleteByIndex(w, index) ==
    [w EXCEPT !.cacheQueue = Append(SubSeq(w.cacheQueue, 1, w.step),
                                    RemoveAt(getCurrentStack(w), index)),
              !.step = w.step + 1,
              !.currentMoveEle = DropFuture(@, w.step)]

(* pushStack(data, prev): one entry for a whole interactive edit.  The entry
   at the cursor, which the edit changed in place, becomes the copy taken
   before the edit, and the edited stack is the one new entry after it;
   nothing is pushed when the two are equal. *)
HistoryPushStack(w, data, prev) ==
    IF data = prev THEN w
    ELSE [w EXCEPT !.cacheQueue = SubSeq(w.cacheQueue, 1, w.step - 1)
                                      \o <<prev, data>>,
                   !.step = w.step + 1,
                   !.currentMoveEle =
                       IF @.q = w.step THEN [@ EXCEPT !.q = w.step + 1]
                       ELSE DropFuture(@, w.step)]

(* sort(compare): a stable sort of the stack at the cursor; cmp[j][k] is the
   comparator's value for the elements now at places j and k. *)
SortedPlace(n, k, cmp) ==
    1 + Cardinality({j \in 1..n : cmp[j][k] < 0 \/ (cmp[j][k] = 0 /\ j < k)})

HistorySort(w, cmp) ==
    LET s == getCurrentStack(w)
        n == Len(s)
        sorted == [p \in 1..n |->
                      s[CHOOSE k \in 1..n : SortedPlace(n, k, cmp) = p]]
    IN [w EXCEPT !.cacheQueue[w.step] = sorted,
                 !.currentMoveEle =
                     IF @.q = w.step /\ @.i \in 1..n
                     THEN [q |-> w.step,
                           i |-> SortedPlace(n, w.currentMoveEle.i, cmp)]
                     ELSE @]

(* history.each(cb, LAST) as the hover scan uses it: the first element from
   the end of the stack that the callback accepts, as a 0-based index. *)
RECURSIVE LastMatch(_, _, _, _)
LastMatch(stack, k, shown, p) ==
    IF k = 0 THEN -1
    ELSE IF /\ stack[k].layer # 0
            /\ stack[k].layer \in shown
            /\ ElementHit(p, stack[k])
         THEN k - 1
    ELSE LastMatch(stack, k - 1, shown, p)

----------------------------------------------------------------------------
(* PaintBoard: each method as an operator on the board state w *)

cancelSelectElement(w) == [w EXCEPT !.selectElementIndex = -1]

initOriginPosition(w) == [w EXCEPT !.originPosition = Pt(0, 0)]

transformPositionNoPan(w, position) ==
    Pt(position.x - CanvasLeft, position.y - CanvasTop)

transformPosition(w, position) ==
    Pt(position.x - CanvasLeft - w.originTranslate.x,
       position.y - CanvasTop - w.originTranslate.y)

(* getSelectElement(index) is undefined when the index is outside the stack;
   reading a property of it throws. *)
HasElement(w, index) == index + 1 \in 1..Len(getCurrentStack(w))

getSelectElement(w, index) == getCurrentStack(w)[index + 1]

BoardState(w) ==
    [currentLineColor |-> w.currentLineColor,
     currentLineWidth |-> w.currentLineWidth,
     cleanWidth |-> w.cleanWidth,
     originTranslate |-> w.originTranslate,
     layer |-> w.layer,
     version |-> w.version]

cache(w) ==
    [w EXCEPT !.storage = [shape |-> "board",
                           history |-> getCurrentStack(w),
                           state |-> BoardState(w)]]

(* render: the drawing calls leave no state; drawing the selection frame
   reads the selected element's rect, and the store is written last. *)
render(w) ==
    IF /\ Len(getCurrentStack(w)) > 0
       /\ w.selectElementIndex # -1
       /\ ~HasElement(w, w.selectElementIndex)
    THEN [w EXCEPT !.threw = TRUE]
    ELSE cache(w)

CompareOnLayer(lay, a, b) == LayerIndex(lay, b.layer) - LayerIndex(lay, a.layer)

sortOnLayer(w) ==
    LET s == getCurrentStack(w)
    IN HistorySort(w, [j \in 1..Len(s) |-> [k \in 1..Len(s) |->
                          CompareOnLayer(w.layer, s[j], s[k])]])

NewElementOnDefaultLayer(w, type) ==
    IF type = FREE_LINE
    THEN NewFreeLine(w.currentLineColor, w.currentLineWidth, DefaultLayerId)
    ELSE IF type = CLEAN_LINE
    THEN NewCleanLine(w.cleanWidth, DefaultLayerId)
    ELSE Null

NewElementOfType(w, type) ==
    IF type = FREE_LINE
    THEN NewFreeLine(w.currentLineColor, w.currentLineWidth, w.layer.current)
    ELSE IF type = CLEAN_LINE
    THEN NewCleanLine(w.cleanWidth, w.layer.current)
    ELSE Null

recordCurrentInPlace(w, type) ==
    LET ele == NewElementOfType(w, type)
        w1 == cancelSelectElement(w)
        w2 == [w1 EXCEPT !.cacheQueue[w.step] = Append(@, ele)]
        w3 == [w2 EXCEPT !.currentMoveEle =
                  [q |-> w2.step, i |-> Len(getCurrentStack(w2))]]
    IN IF ele = Null THEN w1 ELSE sortOnLayer(w3)

recordCurrent(w, type) ==
    LET ele == NewElementOfType(w, type)
        w1 == cancelSelectElement(w)
        w2 == HistoryAdd(w1, ele)
        w3 == [w2 EXCEPT !.currentMoveEle =
                  [q |-> w2.step, i |-> Len(getCurrentStack(w2))]]
    IN IF ele = Null THEN w1 ELSE sortOnLayer(w3)

IsRef(w, ref) ==
    /\ ref.q \in 1..Len(w.cacheQueue)
    /\ ref.i \in 1..Len(w.cacheQueue[ref.q])

currentAddPosition(w, position) ==
    LET p == transformPosition(w, position)
        ref == w.currentMoveEle
        w1 == IF IsRef(w, ref)
              THEN [w EXCEPT !.cacheQueue[ref.q][ref.i] = addPosition(@, p)]
              ELSE w
    IN render(initOriginPosition(w1))

dragCanvas(w, position) ==
    LET mousePosition == Pt(position.x - CanvasLeft, position.y - CanvasTop)
        translteX == mousePosition.x - w.originPosition.x
        translteY == mousePosition.y - w.originPosition.y
        w1 == IF w.originPosition.x # 0 /\ w.originPosition.y # 0
              THEN render([w EXCEPT
                      !.ctxTranslate = Pt(@.x + translteX, @.y + translteY),
                      !.originTranslate = Pt(translteX + @.x, translteY + @.y)])
              ELSE w
    IN [w1 EXCEPT !.originPosition = mousePosition]

setLineWidth(w, width) ==
    IF width # 0 THEN [w EXCEPT !.currentLineWidth = width] ELSE w

setLineColor(w, color) ==
    IF color # "" THEN [w EXCEPT !.currentLineColor = color] ELSE w

setCleanWidth(w, width) ==
    IF width # 0 THEN [w EXCEPT !.cleanWidth = width] ELSE w

undo(w) == render(HistoryUndo(cancelSelectElement(w)))

redoUndoes(w) == render(HistoryUndo(cancelSelectElement(w)))

redo(w) == render(HistoryRedo(cancelSelectElement(w)))

clean(w) == render(HistoryClean(cancelSelectElement(w)))

saveImage(w) ==
    [w EXCEPT !.ctxTranslate = Pt(@.x + w.originTranslate.x,
                                  @.y + w.originTranslate.y)]

(* The hover scan of moveSelectElement: skipped on an empty stack, else the
   topmost hit element of a visible layer, or -1. *)
HoverScan(w, movePos) ==
    LET stack == getCurrentStack(w)
    IN IF Len(stack) > 0
       THEN [w EXCEPT !.mouseHoverElementIndex =
                LastMatch(stack, Len(stack), showLayerIds(w.layer), movePos)]
       ELSE w

CornerHandles ==
    {RESIZE_TOP_LEFT, RESIZE_TOP_RIGHT, RESIZE_BOTTOM_LEFT, RESIZE_BOTTOM_RIGHT}

(* The two scale factors the stroke branch computes for a corner handle,
   (dimension +- distance) / dimension, before it calls resizeFreeLine. *)
StrokeScales(rect, type, dx, dy) ==
    [x |-> IF type \in {RESIZE_BOTTOM_RIGHT, RESIZE_TOP_RIGHT}
           THEN Scale(rect.width + dx, rect.width)
           ELSE Scale(rect.width - dx, rect.width),
     y |-> IF type \in {RESIZE_BOTTOM_RIGHT, RESIZE_BOTTOM_LEFT}
           THEN Scale(rect.height + dy, rect.height)
           ELSE Scale(rect.height - dy, rect.height)]

(* The stroke branch of the drag: move, or rescale about the opposite corner
   with the factors (dimension +- distance) / dimension. *)
DragFreeLine(ele, type, dx, dy) ==
    LET rect == ele.rect
        s == StrokeScales(rect, type, dx, dy)
    IN CASE type = RESIZE_BODY -> moveFreeLine(ele, dx, dy)
         [] type \in CornerHandles -> resizeFreeLine(ele, s.x, s.y, rect, type)
         [] OTHER -> ele

DragTextSameSign(ele, type, dx, dy) ==
    LET rect == ele.rect
    IN CASE type = RESIZE_BODY ->
                [ele EXCEPT !.rect = [@ EXCEPT !.x = @ + dx, !.y = @ + dy]]
         [] type \in {RESIZE_BOTTOM_RIGHT, RESIZE_BOTTOM_LEFT,
                      RESIZE_TOP_LEFT, RESIZE_TOP_RIGHT} ->
                resizeTextElement(ele, rect.width + dx, rect.height + dy, type)
         [] OTHER -> ele

(* The text branch of the drag. *)
DragText(ele, type, dx, dy) ==
    LET rect == ele.rect
    IN CASE type = RESIZE_BODY ->
                [ele EXCEPT !.rect = [@ EXCEPT !.x = @ + dx, !.y = @ + dy]]
         [] type = RESIZE_BOTTOM_RIGHT ->
                resizeTextElement(ele, rect.width + dx, rect.height + dy, type)
         [] type = RESIZE_BOTTOM_LEFT ->
                resizeTextElement(ele, rect.width - dx, rect.height + dy, type)
         [] type = RESIZE_TOP_LEFT ->
                resizeTextElement(ele, rect.width - dx, rect.height - dy, type)
         [] type = RESIZE_TOP_RIGHT ->
                resizeTextElement(ele, rect.width + dx, rect.height - dy, type)
         [] OTHER -> ele

DragElement(ele, type, dx, dy) ==
    IF ele.type = FREE_LINE THEN DragFreeLine(ele, type, dx, dy)
    ELSE IF ele.type = TEXT THEN DragText(ele, type, dx, dy)
    ELSE ele

moveSelectElementKeepsDown(w, position) ==
    LET movePos == transformPosition(w, position)
        w1 == HoverScan(w, movePos)
        index == w1.selectElementIndex
        dragging == w1.resizeType # RESIZE_NULL
        w2 == IF dragging THEN [w1 EXCEPT !.isCurrentChange = TRUE] ELSE w1
    IN IF index = -1 THEN w1
       ELSE IF ~HasElement(w1, index) THEN [w2 EXCEPT !.threw = TRUE]
       ELSE IF dragging
       THEN render([w2 EXCEPT
                !.cacheQueue[w.step][index + 1] =
                    DragElement(@, w1.resizeType,
                                movePos.x - w1.resizeMousePos.x,
                                movePos.y - w1.resizeMousePos.y)])
       ELSE w1

moveSelectElement(w, position) ==
    LET movePos == transformPosition(w, position)
        w1 == HoverScan(w, movePos)
        index == w1.selectElementIndex
        dragging == w1.resizeType # RESIZE_NULL
        w2 == IF dragging THEN [w1 EXCEPT !.isCurrentChange = TRUE] ELSE w1
    IN IF index = -1 THEN w1
       ELSE IF ~HasElement(w1, index) THEN [w2 EXCEPT !.threw = TRUE]
       ELSE IF dragging
       THEN render([w2 EXCEPT
                !.cacheQueue[w.step][index + 1] =
                    DragElement(@, w1.resizeType,
                                movePos.x - w1.resizeMousePos.x,
                                movePos.y - w1.resizeMousePos.y),
                !.resizeMousePos = movePos])
       ELSE w1

SnapshotOnce(w, pos) ==
    IF w.selectElementIndex # -1
    THEN [w EXCEPT !.tempCache = IF @.has THEN @
                                 ELSE SomeCache(getCurrentStack(w)),
                   !.resizeMousePos = pos]
    ELSE w

(* The end of clickSelectElement: with an element selected, the deep copy of
   the stack and the pointer position the drag starts from. *)
SnapshotAtDown(w, pos) ==
    IF w.selectElementIndex # -1
    THEN [w EXCEPT !.tempCache = SomeCache(getCurrentStack(w)),
                   !.resizeMousePos = pos]
    ELSE w

clickSelectElement(w, position) ==
    LET pos == transformPosition(w, position)
        index == w.selectElementIndex
        w1 == IF index # -1
              THEN [w EXCEPT !.resizeType =
                       getResizeType(pos, getSelectElement(w, index).rect)]
              ELSE w
        w2 == IF w1.resizeType = RESIZE_NULL
              THEN IF w1.mouseHoverElementIndex # -1
                   THEN [w1 EXCEPT !.selectElementIndex =
                                       w1.mouseHoverElementIndex]
                   ELSE cancelSelectElement(w1)
              ELSE w1
    IN IF index # -1 /\ ~HasElement(w, index)
       THEN [w EXCEPT !.threw = TRUE]
       ELSE render(SnapshotAtDown(w2, pos))

deleteSelectElement(w) ==
    IF w.selectElementIndex # -1
    THEN render([cancelSelectElement(
                    HistoryDeleteByIndex(w, w.selectElementIndex))
                 EXCEPT !.mouseHoverElementIndex = -1,
                        !.resizeType = RESIZE_NULL])
    ELSE w

CommitDragSwapped(w) ==
    IF w.isCurrentChange /\ w.tempCache.has
    THEN HistoryPushStack(w, w.tempCache.stack, getCurrentStack(w))
    ELSE w

(* The commit of canvasMouseUp. *)
CommitDrag(w) ==
    IF w.isCurrentChange /\ w.tempCache.has
    THEN HistoryPushStack(w, getCurrentStack(w), w.tempCache.stack)
    ELSE w

canvasMouseUpKeepsTarget(w) ==
    initOriginPosition([CommitDrag(w) EXCEPT !.isCurrentChange = FALSE,
                                             !.tempCache = NoCache,
                                             !.resizeType = RESIZE_NULL])

canvasMouseUp(w) ==
    initOriginPosition([CommitDrag(w) EXCEPT !.isCurrentChange = FALSE,
                                             !.tempCache = NoCache,
                                             !.resizeType = RESIZE_NULL,
                                             !.currentMoveEle = NoEle])

addTextElement(w, value, rect) ==
    LET position == transformPosition(w, rect)
        text == NewTextElement(w.layer.current, value,
                               [rect EXCEPT !.x = position.x, !.y = position.y])
    IN IF value # "" THEN render(HistoryAdd(w, text)) ELSE w

(* The layer panel's commands: each changes the registry and calls the render
   callback the registry was built with. *)
toggleShow(w, id) == render([w EXCEPT !.layer = LayerToggleShow(@, id)])

setCurrentLayer(w, id) == render([w EXCEPT !.layer = LayerSetCurrent(@, id)])

----------------------------------------------------------------------------
(* The persistent store and the constructor *)

NoRecord == [shape |-> "none", history |-> <<>>, state |-> Null]

(* storage.get(...) || {} destructured as { history = [], state = {} }: only
   an object with these keys yields them; null and an array yield neither. *)
StoredHistory(rec) == IF rec.shape \in {"board", "v010"} THEN rec.history ELSE <<>>

StoredState(rec) == IF rec.shape \in {"board", "v010"} THEN rec.state ELSE Null

HasKey(state, key) == state # Null /\ key \in DOMAIN state

constructor(rec) ==
    LET history == StoredHistory(rec)
        state == StoredState(rec)
        ver == IF HasKey(state, "version") THEN state.version ELSE LegacyVersion
        translate == IF HasKey(state, "originTranslate")
                     THEN state.originTranslate ELSE Pt(0, 0)
    IN render(
        [cacheQueue |-> <<Migrate(history, ver)>>,
         step |-> 1,
         layer |-> NewLayer(IF HasKey(state, "layer") THEN state.layer ELSE Null),
         originPosition |-> Pt(0, 0),
         originTranslate |-> translate,
         currentLineColor |-> IF HasKey(state, "currentLineColor")
                              THEN state.currentLineColor ELSE DefaultColor,
         currentLineWidth |-> IF HasKey(state, "currentLineWidth")
                              THEN state.currentLineWidth ELSE CommonWidthW4,
         cleanWidth |-> IF HasKey(state, "cleanWidth")
                        THEN state.cleanWidth ELSE CommonWidthW4,
         version |-> IF HasKey(state, "version")
                     THEN state.version ELSE CurrentVersion,
         currentMoveEle |-> NoEle,
         mouseHoverElementIndex |-> -1,
         selectElementIndex |-> -1,
         resizeMousePos |-> Pt(0, 0),
         resizeType |-> RESIZE_NULL,
         tempCache |-> NoCache,
         isCurrentChange |-> FALSE,
         storage |-> rec,
         ctxTranslate |-> translate,
         threw |-> FALSE])

----------------------------------------------------------------------------
(* The state machine *)

W == [cacheQueue |-> cacheQueue, step |-> step, layer |-> layer,
      originPosition |-> originPosition, originTranslate |-> originTranslate,
      currentLineColor |-> currentLineColor,
      currentLineWidth |-> currentLineWidth, cleanWidth |-> cleanWidth,
      version |-> version, currentMoveEle |-> currentMoveEle,
      mouseHoverElementIndex |-> mouseHoverElementIndex,
      selectElementIndex |-> selectElementIndex,
      resizeMousePos |-> resizeMousePos, resizeType |-> resizeType,
      tempCache |-> tempCache, isCurrentChange |-> isCurrentChange,
      storage |-> storage, ctxTranslate |-> ctxTranslate, threw |-> FALSE]

Becomes(n) ==
    /\ cacheQueue' = n.cacheQueue
    /\ step' = n.step
    /\ layer' = n.layer
    /\ originPosition' = n.originPosition
    /\ originTranslate' = n.originTranslate
    /\ currentLineColor' = n.currentLineColor
    /\ currentLineWidth' = n.currentLineWidth
    /\ cleanWidth' = n.cleanWidth
    /\ version' = n.version
    /\ currentMoveEle' = n.currentMoveEle
    /\ mouseHoverElementIndex' = n.mouseHoverElementIndex
    /\ selectElementIndex' = n.selectElementIndex
    /\ resizeMousePos' = n.resizeMousePos
    /\ resizeType' = n.resizeType
    /\ tempCache' = n.tempCache
    /\ isCurrentChange' = n.isCurrentChange
    /\ storage' = n.storage
    /\ ctxTranslate' = n.ctxTranslate
    /\ threw' = n.threw

(* The observer: what the pointer session in progress started from, and what
   the last command was given.  It reads the board and never feeds it. *)
IdleObs ==
    [sess |-> "none", handle |-> FALSE, moved |-> FALSE, fresh |-> FALSE,
     lift |-> "none", downStack |-> <<>>, downPos |-> Pt(0, 0),
     ptr |-> [seen |-> FALSE, x |-> 0, y |-> 0], valid |-> TRUE,
     mutating |-> FALSE, loaded |-> NoRecord,
     drags |-> 0, downs |-> 0, steps |-> 0,
     chain |-> "none", base |-> <<>>, pairs |-> 0, added |-> FALSE,
     kind |-> "", armed |-> FALSE, cut |-> FALSE, at |-> Pt(0, 0),
     panN |-> 0, panP0 |-> Pt(0, 0), panFrom |-> Pt(0, 0)]

(* The commands the stored record is claimed to follow. *)
MutatingCommands ==
    {"recordCurrent", "currentAddPosition", "addTextElement",
     "deleteSelectElement", "undo", "redo", "clean", "dragCanvas",
     "moveSelectElement", "setLineColor", "setLineWidth", "setCleanWidth"}

(* What a specification has the observer keep: the commands lastCmd names
   (any other is "other"), and the groups of fields of obs that are kept
   (the others stay idle).  The counters the bounds read are always kept;
   steps, when not 0, is the number of commands a run may hold. *)
Watch(cmds, groups, steps) ==
    [cmds |-> cmds, groups |-> groups, steps |-> steps]

Kept(o) ==
    [drags |-> o.drags, downs |-> o.downs, steps |-> o.steps,
     sess |-> IF "session" \in view.groups THEN o.sess ELSE IdleObs.sess,
     handle |-> IF "session" \in view.groups THEN o.handle ELSE IdleObs.handle,
     moved |-> IF "session" \in view.groups THEN o.moved ELSE IdleObs.moved,
     fresh |-> IF "session" \in view.groups THEN o.fresh ELSE IdleObs.fresh,
     lift |-> IF "session" \in view.groups THEN o.lift ELSE IdleObs.lift,
     downStack |-> IF "session" \in view.groups THEN o.downStack
                   ELSE IdleObs.downStack,
     downPos |-> IF "session" \in view.groups THEN o.downPos
                 ELSE IdleObs.downPos,
     ptr |-> IF "pointer" \in view.groups THEN o.ptr ELSE IdleObs.ptr,
     valid |-> IF "store" \in view.groups THEN o.valid ELSE IdleObs.valid,
     mutating |-> IF "store" \in view.groups THEN o.mutating
                  ELSE IdleObs.mutating,
     loaded |-> IF "store" \in view.groups THEN o.loaded ELSE IdleObs.loaded,
     chain |-> IF "timeline" \in view.groups THEN o.chain ELSE IdleObs.chain,
     base |-> IF "timeline" \in view.groups THEN o.base ELSE IdleObs.base,
     pairs |-> IF "timeline" \in view.groups THEN o.pairs ELSE IdleObs.pairs,
     added |-> IF "timeline" \in view.groups THEN o.added ELSE IdleObs.added,
     kind |-> IF "draw" \in view.groups THEN o.kind ELSE IdleObs.kind,
     armed |-> IF "draw" \in view.groups THEN o.armed ELSE IdleObs.armed,
     cut |-> IF "session" \in view.groups THEN o.cut ELSE IdleObs.cut,
     at |-> IF "draw" \in view.groups THEN o.at ELSE IdleObs.at,
     panN |-> IF "pan" \in view.groups THEN o.panN ELSE IdleObs.panN,
     panP0 |-> IF "pan" \in view.groups THEN o.panP0 ELSE IdleObs.panP0,
     panFrom |-> IF "pan" \in view.groups THEN o.panFrom
                 ELSE IdleObs.panFrom]

(* The drag branch of moveSelectElement runs: an element is selected, it
   exists, and a handle is held. *)
Drags(w) ==
    /\ w.selectElementIndex # -1
    /\ HasElement(w, w.selectElementIndex)
    /\ w.resizeType # RESIZE_NULL

ObsDown(w, n, pos) ==
    LET assigned == /\ ~(w.selectElementIndex # -1
                         /\ ~HasElement(w, w.selectElementIndex))
                    /\ n.selectElementIndex # -1
        down == assigned /\ ~n.threw
    IN [IdleObs EXCEPT
           !.drags = obs.drags,
           !.sess = IF down THEN "down" ELSE "none",
           !.handle = down /\ n.resizeType # RESIZE_NULL,
           !.fresh = assigned,
           !.downStack = IF down THEN getCurrentStack(n) ELSE <<>>,
           !.downPos = IF down THEN pos ELSE Pt(0, 0)]

ObsMove(w, n, ptr) ==
    [obs EXCEPT !.moved = @ \/ (obs.sess = "down" /\ obs.handle /\ ~n.threw),
                !.drags = IF Drags(w) THEN @ + 1 ELSE @,
                !.ptr = ptr, !.lift = "none",
                !.valid = Drags(w) /\ ~n.threw,
                !.loaded = NoRecord]

ObsUp(w, n) ==
    LET lift == IF obs.sess # "down" THEN "none"
                ELSE IF n.cacheQueue # w.cacheQueue THEN "commit"
                ELSE IF obs.moved THEN "back"
                ELSE "still"
    IN [IdleObs EXCEPT !.lift = lift,
                       !.drags = obs.drags,
                       !.downStack = IF lift = "commit" THEN obs.downStack
                                     ELSE <<>>]

ObsOther(cmd, valid) ==
    [IdleObs EXCEPT !.fresh = obs.fresh,
                    !.drags = obs.drags,
                    !.valid = valid,
                    !.lift = IF cmd = "undo" /\ lastCmd = "canvasMouseUp"
                                /\ obs.lift = "commit"
                             THEN "undone" ELSE "none"]

(* The observer's account of the timeline.  chain follows undo/redo pairs:
   "undone" after an undo() that had an entry to go back to or no entry to
   go forward to, "redone" after the redo() that follows it at once, and
   base is the stack before the first undo() of the chain.  added says that
   an element was added while entries lay beyond the cursor, and that no
   undo() has run since.  armed says that recordCurrent has begun a stroke
   and no canvasMouseUp has run since; kind is the kind the last
   recordCurrent, or the value the last addTextElement, was given, and at
   the position of the rect that addTextElement was given.  cut says that
   undo(), redo(), clean() or deleteSelectElement() ran during a pointer
   session whose moves had changed the element, and that no pointer-down or
   pointer-up has come since.  panN counts (up to 2) the dragCanvas calls
   since the board was constructed or the pointer was lifted, panP0 is the
   position the first of them was given and panFrom the pan offset before
   it. *)
Track(cmd, w, valid, o) ==
    LET again == cmd = "undo" /\ obs.chain = "redone"
        first == /\ cmd = "undo" /\ ~again
                 /\ (w.step > 1 \/ w.step = Len(w.cacheQueue))
        closes == cmd = "redo" /\ obs.chain = "undone"
    IN [o EXCEPT
           !.downs = IF cmd = "clickSelectElement" THEN obs.downs + 1
                     ELSE obs.downs,
           !.steps = IF view.steps > 0 THEN obs.steps + 1 ELSE 0,
           !.mutating = cmd \in MutatingCommands /\ o.valid /\ valid,
           !.chain = IF again \/ first THEN "undone"
                     ELSE IF closes THEN "redone" ELSE "none",
           !.base = IF again \/ closes THEN obs.base
                    ELSE IF first THEN getCurrentStack(w) ELSE <<>>,
           !.pairs = IF again THEN obs.pairs
                     ELSE IF closes THEN Min2(obs.pairs + 1, MaxPairs) ELSE 0,
           !.added = IF cmd \in {"undo", "constructor"} THEN FALSE
                     ELSE IF /\ cmd \in {"recordCurrent", "addTextElement"}
                             /\ valid /\ w.step < Len(w.cacheQueue)
                     THEN TRUE
                     ELSE obs.added,
           !.armed = IF cmd = "recordCurrent" /\ valid THEN TRUE
                     ELSE IF cmd \in {"canvasMouseUp", "constructor"}
                     THEN FALSE
                     ELSE obs.armed,
           !.cut = IF cmd \in {"clickSelectElement", "canvasMouseUp",
                               "constructor"}
                   THEN FALSE
                   ELSE IF /\ cmd \in {"undo", "redo", "clean",
                                        "deleteSelectElement"}
                           /\ obs.sess = "down" /\ obs.moved
                           /\ getCurrentStack(w) # obs.downStack
                   THEN TRUE
                   ELSE obs.cut,
           !.panN = IF cmd = "dragCanvas" THEN Min2(obs.panN + 1, 2)
                    ELSE IF cmd \in {"canvasMouseUp", "constructor"} THEN 0
                    ELSE obs.panN,
           !.panP0 = IF cmd = "dragCanvas"
                     THEN IF obs.panN = 0 THEN o.panP0 ELSE obs.panP0
                     ELSE IF cmd \in {"canvasMouseUp", "constructor"}
                     THEN IdleObs.panP0
                     ELSE obs.panP0,
           !.panFrom = IF cmd = "dragCanvas"
                       THEN IF obs.panN = 0 THEN w.originTranslate
                            ELSE obs.panFrom
                       ELSE IF cmd \in {"canvasMouseUp", "constructor"}
                       THEN IdleObs.panFrom
                       ELSE obs.panFrom]

(* The model's bounds as guards: the timeline, the elements of a stack, the
   points of a stroke, the pan offset, the pointer-moves of a run that drag
   an element. *)
WithinBounds(n) ==
    /\ Len(n.cacheQueue) <= MaxTimeline
    /\ \A q \in 1..Len(n.cacheQueue) : Len(n.cacheQueue[q]) <= MaxStack
    /\ Abs(n.originTranslate.x) <= MaxPan
    /\ Abs(n.originTranslate.y) <= MaxPan
    /\ \A q \in 1..Len(n.cacheQueue) : \A i \in 1..Len(n.cacheQueue[q]) :
           Len(n.cacheQueue[q][i].positions) <= MaxPoints

Allowed(n, o) ==
    WithinBounds(n) /\ o.drags <= MaxDrags /\ o.steps <= view.steps

Observed(cmd, o) ==
    /\ lastCmd' = IF cmd \in view.cmds THEN cmd ELSE "other"
    /\ obs' = Kept(o)
    /\ view' = view

Start(records, watch) ==
    \E rec \in records :
        LET n == constructor(rec)
        IN /\ cacheQueue = n.cacheQueue
           /\ step = n.step
           /\ layer = n.layer
           /\ originPosition = n.originPosition
           /\ originTranslate = n.originTranslate
           /\ currentLineColor = n.currentLineColor
           /\ currentLineWidth = n.currentLineWidth
           /\ cleanWidth = n.cleanWidth
           /\ version = n.version
           /\ currentMoveEle = n.currentMoveEle
           /\ mouseHoverElementIndex = n.mouseHoverElementIndex
           /\ selectElementIndex = n.selectElementIndex
           /\ resizeMousePos = n.resizeMousePos
           /\ resizeType = n.resizeType
           /\ tempCache = n.tempCache
           /\ isCurrentChange = n.isCurrentChange
           /\ storage = n.storage
           /\ ctxTranslate = n.ctxTranslate
           /\ threw = n.threw
           /\ view = watch
           /\ lastCmd = IF "constructor" \in watch.cmds THEN "constructor"
                         ELSE "other"
           /\ obs = [IdleObs EXCEPT !.loaded = IF "store" \in watch.groups
                                               THEN rec ELSE NoRecord]

MoveSelectElement(positions) ==
    \E p \in positions :
        LET n == moveSelectElement(W, p)
            o == Track("moveSelectElement", W, TRUE,
                       ObsMove(W, n, IdleObs.ptr))
        IN /\ Allowed(n, o) /\ Becomes(n)
           /\ Observed("moveSelectElement", o)

(* The same handler, with the observer keeping the pointer's board position. *)
HoverAt(positions) ==
    \E p \in positions :
        LET n == moveSelectElement(W, p)
            at == transformPosition(W, p)
            o == Track("moveSelectElement", W, TRUE,
                       ObsMove(W, n, [seen |-> TRUE, x |-> at.x, y |-> at.y]))
        IN /\ Allowed(n, o) /\ Becomes(n)
           /\ Observed("moveSelectElement", o)

(* downs: the pointer-downs a run of the specification may hold. *)
ClickSelectElement(positions, downs) ==
    \E p \in positions :
        LET n == clickSelectElement(W, p)
            o == Track("clickSelectElement", W, TRUE,
                       ObsDown(W, n, transformPosition(W, p)))
        IN /\ Allowed(n, o) /\ o.downs <= downs /\ Becomes(n)
           /\ Observed("clickSelectElement", o)

CanvasMouseUp ==
    LET n == canvasMouseUp(W)
        o == Track("canvasMouseUp", W, TRUE, ObsUp(W, n))
    IN /\ Allowed(n, o) /\ Becomes(n)
       /\ Observed("canvasMouseUp", o)

Undo ==
    LET n == undo(W)
        o == Track("undo", W, TRUE, ObsOther("undo", TRUE))
    IN /\ Allowed(n, o) /\ Becomes(n)
       /\ Observed("undo", o)

Redo ==
    LET n == redo(W)
        o == Track("redo", W, TRUE, ObsOther("redo", TRUE))
    IN /\ Allowed(n, o) /\ Becomes(n)
       /\ Observed("redo", o)

Clean ==
    LET n == clean(W)
        o == Track("clean", W, TRUE, ObsOther("clean", TRUE))
    IN /\ Allowed(n, o) /\ Becomes(n)
       /\ Observed("clean", o)

DeleteSelectElement ==
    LET n == deleteSelectElement(W)
        valid == selectElementIndex # -1
        o == Track("deleteSelectElement", W, valid,
                   ObsOther("deleteSelectElement", valid))
    IN /\ Allowed(n, o) /\ Becomes(n)
       /\ Observed("deleteSelectElement", o)

RecordCurrent(kinds) ==
    \E type \in kinds :
        LET n == recordCurrent(W, type)
            valid == type \in {FREE_LINE, CLEAN_LINE}
            o == Track("recordCurrent", W, valid,
                       [ObsOther("recordCurrent", valid) EXCEPT !.kind = type])
        IN /\ Allowed(n, o) /\ Becomes(n)
           /\ Observed("recordCurrent", o)

CurrentAddPosition(positions) ==
    \E p \in positions :
        LET n == currentAddPosition(W, p)
            valid == IsRef(W, currentMoveEle)
            o == Track("currentAddPosition", W, valid,
                       ObsOther("currentAddPosition", valid))
        IN /\ Allowed(n, o) /\ Becomes(n)
           /\ Observed("currentAddPosition", o)

AddTextElement(values, rects) ==
    \E value \in values, rect \in rects :
        LET n == addTextElement(W, value, rect)
            valid == value # ""
            o == Track("addTextElement", W, valid,
                       [ObsOther("addTextElement", valid)
                           EXCEPT !.kind = value, !.at = Pt(rect.x, rect.y)])
        IN /\ Allowed(n, o) /\ Becomes(n)
           /\ Observed("addTextElement", o)

DragCanvas(positions) ==
    \E p \in positions :
        LET n == dragCanvas(W, p)
            valid == originPosition.x # 0 /\ originPosition.y # 0
            o == Track("dragCanvas", W, valid,
                       [ObsOther("dragCanvas", valid) EXCEPT !.panP0 = p])
        IN /\ Allowed(n, o) /\ Becomes(n)
           /\ Observed("dragCanvas", o)

SetLineColor(colors) ==
    \E color \in colors :
        LET n == setLineColor(W, color)
            valid == color # ""
            o == Track("setLineColor", W, valid,
                       ObsOther("setLineColor", valid))
        IN /\ Allowed(n, o) /\ Becomes(n)
           /\ Observed("setLineColor", o)

SetLineWidth(widths) ==
    \E width \in widths :
        LET n == setLineWidth(W, width)
            valid == width # 0
            o == Track("setLineWidth", W, valid,
                       ObsOther("setLineWidth", valid))
        IN /\ Allowed(n, o) /\ Becomes(n)
           /\ Observed("setLineWidth", o)

SetCleanWidth(widths) ==
    \E width \in widths :
        LET n == setCleanWidth(W, width)
            valid == width # 0
            o == Track("setCleanWidth", W, valid,
                       ObsOther("setCleanWidth", valid))
        IN /\ Allowed(n, o) /\ Becomes(n)
           /\ Observed("setCleanWidth", o)

ToggleShow(ids) ==
    \E id \in ids :
        LET n == toggleShow(W, id)
            o == Track("toggleShow", W, TRUE, ObsOther("toggleShow", TRUE))
        IN /\ Allowed(n, o) /\ Becomes(n)
           /\ Observed("toggleShow", o)

SetCurrentLayer(ids) ==
    \E id \in ids :
        LET n == setCurrentLayer(W, id)
            o == Track("setCurrentLayer", W, TRUE,
                       ObsOther("setCurrentLayer", TRUE))
        IN /\ Allowed(n, o) /\ Becomes(n)
           /\ Observed("setCurrentLayer", o)

(* The page is loaded again: a new board is constructed from the store. *)
Reload ==
    LET n == constructor(storage)
        o == Track("constructor", W, TRUE,
                   [ObsOther("constructor", TRUE) EXCEPT !.loaded = storage])
    IN /\ Allowed(n, o) /\ Becomes(n)
       /\ Observed("constructor", o)

(* saveImage; the guard keeps the translation of the surface within the
   model's bound. *)
SaveImage ==
    LET n == saveImage(W)
        o == Track("saveImage", W, TRUE, ObsOther("saveImage", TRUE))
    IN /\ Abs(n.ctxTranslate.x) <= MaxSurface
       /\ Abs(n.ctxTranslate.y) <= MaxSurface
       /\ Allowed(n, o) /\ Becomes(n)
       /\ Observed("saveImage", o)

----------------------------------------------------------------------------
(* Drag sessions on a stored board that holds one text box *)

Dev(x, y) == Pt(x + CanvasLeft, y + CanvasTop)

OneLayer == [stack |-> <<[id |-> 1, show |-> TRUE]>>, current |-> 1]

DefaultState(lay) ==
    [currentLineColor |-> DefaultColor, currentLineWidth |-> CommonWidthW4,
     cleanWidth |-> CommonWidthW4, originTranslate |-> Pt(0, 0),
     layer |-> lay, version |-> CurrentVersion]

TextAt(layerId, x, y, w, h) == NewTextElement(layerId, "a", Rect(x, y, w, h))

StrokeAt(layerId, p1, p2) ==
    addPosition(addPosition(
        NewFreeLine(DefaultColor, CommonWidthW4, layerId), p1), p2)

DragRecords ==
    {[shape |-> "board",
      history |-> <<TextAt(1, 10, 10, 20, 20)>>,
      state |-> DefaultState(OneLayer)]}

DragPositions ==
    {Dev(10, 10), Dev(15, 15), Dev(30, 30)}

InitDrag ==
    Start(DragRecords,
          Watch({"moveSelectElement", "canvasMouseUp", "undo"}, {"session"},
                0))

NextDrag ==
    \/ MoveSelectElement(DragPositions)
    \/ ClickSelectElement(DragPositions, MaxDragDowns)
    \/ CanvasMouseUp
    \/ Undo

SpecDrag == InitDrag /\ [][NextDrag]_vars

(* C1: a drag session on the selected element (pointer-down on a handle,
   K >= 1 pointer-moves that change it, pointer-up with the stack different
   from what it was at pointer-down) adds no timeline entry during the moves
   and exactly one at the pointer-up, right after the cursor; an undo issued
   right after the lift shows the stack as it was at pointer-down. *)
C1_Moves ==
    lastCmd' = "moveSelectElement"
        => Len(cacheQueue') = Len(cacheQueue) /\ step' = step

C1_Lift ==
    (/\ lastCmd' = "canvasMouseUp"
     /\ obs.sess = "down" /\ obs.handle /\ obs.moved
     /\ cacheQueue[step] # obs.downStack)
        => /\ step' = step + 1
           /\ Len(cacheQueue') = step + 1
           /\ SubSeq(cacheQueue', 1, step - 1) = SubSeq(cacheQueue, 1, step - 1)

C1_UndoAfterLift ==
    (lastCmd = "canvasMouseUp" /\ obs.lift = "commit" /\ lastCmd' = "undo")
        => cacheQueue'[step'] = obs.downStack

C1_AtomicDragCommit == [][C1_Moves /\ C1_Lift /\ C1_UndoAfterLift]_vars

C1_Witness == lastCmd = "undo" /\ obs.lift = "undone"

(* C2: a pointer-down on an element followed, with only pointer-moves in
   between (none, or some that leave the stack equal to what it was at the
   pointer-down), by a pointer-up pushes no timeline entry. *)
C2_NoOpDrag ==
    [][(/\ lastCmd' = "canvasMouseUp"
        /\ obs.sess = "down"
        /\ cacheQueue[step] = obs.downStack)
           => cacheQueue' = cacheQueue /\ step' = step]_vars

C2_Witness == lastCmd = "canvasMouseUp" /\ obs.lift = "back"

(* C8: a pointer-up that pushes a timeline entry pushes the copy taken by the
   pointer-down it ends: the most recent clickSelectElement took the copy
   that tempCache holds. *)
C8_OwnSnapshotOnly ==
    [][(lastCmd' = "canvasMouseUp" /\ cacheQueue' # cacheQueue)
           => obs.fresh]_vars

(* C10: while a text box is resized by a corner handle, over any number of
   pointer-moves, the corner opposite to the handle stays where it was at
   pointer-down; the rect {10,10,20,20} taken by its top-left handle and
   moved by (5,5) in total is {15,15,15,15}. *)
C10_ResizeAnchor ==
    (/\ obs.sess = "down" /\ obs.handle
     /\ cacheQueue[step][selectElementIndex + 1].type = TEXT
     /\ resizeType # RESIZE_BODY)
        => LET e == cacheQueue[step][selectElementIndex + 1].rect
               e0 == obs.downStack[selectElementIndex + 1].rect
           IN /\ resizeType \in {RESIZE_TOP_LEFT, RESIZE_BOTTOM_LEFT}
                    => e.x + e.width = e0.x + e0.width
              /\ resizeType \in {RESIZE_TOP_RIGHT, RESIZE_BOTTOM_RIGHT}
                    => e.x = e0.x
              /\ resizeType \in {RESIZE_TOP_LEFT, RESIZE_TOP_RIGHT}
                    => e.y + e.height = e0.y + e0.height
              /\ resizeType \in {RESIZE_BOTTOM_LEFT, RESIZE_BOTTOM_RIGHT}
                    => e.y = e0.y
              /\ (/\ e0 = Rect(10, 10, 20, 20)
                  /\ resizeType = RESIZE_TOP_LEFT
                  /\ resizeMousePos.x - obs.downPos.x = 5
                  /\ resizeMousePos.y - obs.downPos.y = 5)
                    => e = Rect(15, 15, 15, 15)

C10_Witness ==
    /\ obs.sess = "down" /\ obs.moved
    /\ resizeType = RESIZE_TOP_LEFT
    /\ obs.downStack[selectElementIndex + 1].rect = Rect(10, 10, 20, 20)
    /\ cacheQueue[step][selectElementIndex + 1].rect = Rect(15, 15, 15, 15)

(* C12: while a text box is dragged by its body, over any number of
   pointer-moves, rect.x and rect.y differ from what they were at
   pointer-down by the last pointer position minus the pointer-down
   position, and rect.width and rect.height are what they were. *)
C12_BodyDragTranslates ==
    (/\ obs.sess = "down" /\ obs.handle
     /\ cacheQueue[step][selectElementIndex + 1].type = TEXT
     /\ resizeType = RESIZE_BODY)
        => LET e == cacheQueue[step][selectElementIndex + 1].rect
               e0 == obs.downStack[selectElementIndex + 1].rect
           IN /\ e.x - e0.x = resizeMousePos.x - obs.downPos.x
              /\ e.y - e0.y = resizeMousePos.y - obs.downPos.y
              /\ e.width = e0.width
              /\ e.height = e0.height

C12_Witness ==
    /\ obs.sess = "down" /\ obs.moved /\ obs.drags >= 2
    /\ resizeType = RESIZE_BODY
    /\ cacheQueue[step][selectElementIndex + 1].type = TEXT
    /\ obs.downStack[selectElementIndex + 1].rect = Rect(10, 10, 20, 20)
    /\ cacheQueue[step][selectElementIndex + 1].rect = Rect(25, 25, 20, 20)

----------------------------------------------------------------------------
(* Editing sessions on an empty board: strokes, text boxes, selection, drags
   of a text box, deletion, and the timeline commands *)

HistKinds == {FREE_LINE}

HistPoints == {Dev(100, 100)}

HistTexts == {Rect(Dev(10, 10).x, Dev(10, 10).y, 20, 20)}

HistPointer == {Dev(15, 15), Dev(45, 45)}

InitHist == Start({NoRecord}, Watch({"redo"}, {"timeline"}, MaxHistSteps))

NextHist ==
    \/ RecordCurrent(HistKinds)
    \/ AddTextElement({"a"}, HistTexts)
    \/ MoveSelectElement(HistPointer)
    \/ ClickSelectElement(HistPointer, MaxHistSteps)
    \/ CanvasMouseUp
    \/ DeleteSelectElement
    \/ Undo
    \/ Redo
    \/ Clean

SpecHist == InitHist /\ [][NextHist]_vars

(* C3: an undo() that has an entry to go back to, or none to go forward to
   (as after any sequence of committed edits), followed at once by redo(),
   leaves the current stack equal to what it was before the undo(); so does
   the pair repeated. *)
C3_UndoRedoInverse == obs.chain = "redone" => cacheQueue[step] = obs.base

C3_Witness ==
    /\ obs.chain = "redone" /\ obs.pairs >= 2
    /\ step = 3 /\ cacheQueue[step] # cacheQueue[step - 1]

(* C4: once an element has been added while entries lay beyond the cursor
   (an undo() followed by recordCurrent with a valid kind or by
   addTextElement with a value), every redo() before the next undo() leaves
   the timeline and the cursor as they are. *)
C4_RedoInvalidation ==
    [][(lastCmd' = "redo" /\ obs.added)
           => cacheQueue' = cacheQueue /\ step' = step]_vars

C4_Witness == lastCmd = "redo" /\ obs.added /\ step > 1

----------------------------------------------------------------------------
(* Two layers: elements created on either, layers hidden and shown, and the
   pointer moved over the board *)

TwoLayers ==
    [stack |-> <<[id |-> 1, show |-> TRUE], [id |-> 2, show |-> TRUE]>>,
     current |-> 1]

LayerRecords ==
    {[shape |-> "board", history |-> <<>>, state |-> DefaultState(TwoLayers)],
     [shape |-> "board",
      history |-> <<StrokeAt(2, Pt(10, 10), Pt(14, 14))>>,
      state |-> DefaultState(TwoLayers)]}

LayerPoints == {Dev(10, 10), Dev(14, 14)}

LayerTexts == {Rect(Dev(10, 10).x, Dev(10, 10).y, 20, 20)}

LayerPointer == {Dev(12, 12), Dev(60, 60)}

InitLayer ==
    Start(LayerRecords,
          Watch({"moveSelectElement", "recordCurrent", "addTextElement"},
                {"pointer", "store"}, 0))

NextLayer ==
    \/ RecordCurrent({FREE_LINE})
    \/ CurrentAddPosition(LayerPoints)
    \/ AddTextElement({"a"}, LayerTexts)
    \/ SetCurrentLayer({1, 2})
    \/ ToggleShow({1, 2})
    \/ HoverAt(LayerPointer)

SpecLayer == InitLayer /\ [][NextLayer]_vars

(* The places of the current stack whose element is on a shown layer and is
   hit at p. *)
VisibleHits(p) ==
    {k \in 1..Len(cacheQueue[step]) :
        /\ cacheQueue[step][k].layer \in showLayerIds(layer)
        /\ ElementHit(p, cacheQueue[step][k])}

(* C5: after the pointer is moved to a point, the hovered element is a
   visible element hit there whose layer is topmost among the layers of the
   visible elements hit there, and none when no visible element is hit.
   Topmost is the layer that sortOnLayer has painted last: the one of lowest
   layer-stack index. *)
C5_TopmostHit ==
    (lastCmd = "moveSelectElement" /\ obs.ptr.seen /\ ~threw)
        => LET hits == VisibleHits(Pt(obs.ptr.x, obs.ptr.y))
               k == mouseHoverElementIndex + 1
           IN IF hits = {} THEN mouseHoverElementIndex = -1
              ELSE /\ k \in hits
                   /\ \A j \in hits :
                          LayerIndex(layer, cacheQueue[step][k].layer)
                              <= LayerIndex(layer, cacheQueue[step][j].layer)

(* C9: after recordCurrent with a valid kind or addTextElement with a value,
   the current stack is ordered by ascending layer-stack index. *)
C9_AscendingLayerOrder ==
    (lastCmd \in {"recordCurrent", "addTextElement"} /\ obs.valid)
        => \A j, k \in 1..Len(cacheQueue[step]) :
               j < k => LayerIndex(layer, cacheQueue[step][j].layer)
                            <= LayerIndex(layer, cacheQueue[step][k].layer)

----------------------------------------------------------------------------------------------------------------------------------------
(* Loading: boards constructed from every shape of stored record, edited,
   and constructed again from what they stored *)

LegacyStroke ==
    [StrokeAt(0, Pt(100, 100), Pt(104, 104)) EXCEPT !.width = CommonWidthW5]

(* What the earlier generation's render writes: the array of elements. *)
ArrayRecord == [shape |-> "array", history |-> <<LegacyStroke>>, state |-> Null]

(* A record of the current shape written before versions and layers. *)
V010Record ==
    [shape |-> "v010", history |-> <<LegacyStroke>>,
     state |-> [currentLineColor |-> DefaultColor,
                currentLineWidth |-> CommonWidthW5,
                cleanWidth |-> CommonWidthW5,
                originTranslate |-> Pt(0, 0)]]

LoadRecords ==
    {NoRecord, ArrayRecord, V010Record,
     [shape |-> "board", history |-> <<StrokeAt(2, Pt(10, 10), Pt(14, 14))>>,
      state |-> DefaultState(TwoLayers)]}

InitLoad == Start(LoadRecords, Watch({"constructor"}, {"store"}, 0))

NextLoad ==
    \/ RecordCurrent({FREE_LINE})
    \/ CurrentAddPosition(HistPoints)
    \/ AddTextElement({"a"}, HistTexts)
    \/ ToggleShow({1})
    \/ SetCurrentLayer({1, 2})
    \/ Undo
    \/ Reload

SpecLoad == InitLoad /\ [][NextLoad]_vars

(* The stack and the registry a stored record stands for: its elements, those
   without a layer on the default layer, and its registry or the default
   one. *)
StoredStack(rec) ==
    [k \in 1..Len(rec.history) |->
        IF rec.history[k].layer = 0
        THEN [rec.history[k] EXCEPT !.layer = DefaultLayerId]
        ELSE rec.history[k]]

StoredLayer(rec) ==
    IF HasKey(rec.state, "layer") THEN rec.state.layer ELSE NewLayer(Null)

(* C6: a board constructed from a stored record, of the current shape or of
   an earlier one, has the record's elements as its current stack and the
   record's layer registry, and the constructor does not fail. *)
C6_RoundTrip ==
    lastCmd = "constructor"
        => /\ ~threw
           /\ cacheQueue[step] = StoredStack(obs.loaded)
           /\ layer = StoredLayer(obs.loaded)

----------------------------------------------------------------------------
(* The store under every mutating command *)

StoreRecords ==
    {[shape |-> "board", history |-> <<TextAt(1, 10, 10, 20, 20)>>,
      state |-> DefaultState(OneLayer)]}

StorePointer == {Dev(15, 15)}

StorePan == {Dev(1, 1), Dev(2, 2)}

InitStore == Start(StoreRecords, Watch({}, {"store"}, MaxStoreSteps))

NextStore ==
    \/ RecordCurrent({FREE_LINE})
    \/ CurrentAddPosition(HistPoints)
    \/ AddTextElement({"a"}, HistTexts)
    \/ MoveSelectElement(StorePointer)
    \/ ClickSelectElement(StorePointer, MaxStoreSteps)
    \/ CanvasMouseUp
    \/ DeleteSelectElement
    \/ Undo
    \/ Redo
    \/ Clean
    \/ DragCanvas(StorePan)
    \/ SetLineColor({"#ff0000"})
    \/ SetLineWidth({CommonWidthW5})
    \/ SetCleanWidth({CommonWidthW5})

SpecStore == InitStore /\ [][NextStore]_vars

(* C7: after every mutating command that completes, the stored record is the
   current stack together with the current board state. *)
C7_StoreCurrent ==
    (obs.mutating /\ ~threw)
        => storage = [shape |-> "board", history |-> cacheQueue[step],
                      state |-> BoardState(W)]

----------------------------------------------------------------------------
(* Drag sessions on a stored stroke: a horizontal two-point stroke, whose
   rect has height 0, or a diagonal one *)

StrokeRecords ==
    {[shape |-> "board",
      history |-> <<StrokeAt(1, Pt(10, 10), Pt(14, 10))>>,
      state |-> DefaultState(OneLayer)],
     [shape |-> "board",
      history |-> <<StrokeAt(1, Pt(10, 10), Pt(14, 14))>>,
      state |-> DefaultState(OneLayer)]}

StrokePositions == {Dev(10, 10), Dev(12, 12), Dev(14, 14)}

InitStroke ==
    Start(StrokeRecords,
          Watch({"moveSelectElement", "canvasMouseUp"}, {"session"}, 0))

NextStroke ==
    \/ MoveSelectElement(StrokePositions)
    \/ ClickSelectElement(StrokePositions, MaxDragDowns)
    \/ CanvasMouseUp

SpecStroke == InitStroke /\ [][NextStroke]_vars

(* C11: a pointer-move that resizes a stroke by a corner handle computes no
   scale factor whose divisor, the width or height of the stroke's rect
   before the move, is zero. *)
C11_NoZeroDivisor ==
    [][(/\ lastCmd' = "moveSelectElement"
        /\ Drags(W)
        /\ getSelectElement(W, selectElementIndex).type = FREE_LINE
        /\ resizeType \in CornerHandles)
           => LET s == StrokeScales(
                          getSelectElement(W, selectElementIndex).rect,
                          resizeType,
                          resizeMousePos'.x - resizeMousePos.x,
                          resizeMousePos'.y - resizeMousePos.y)
              IN s.x.den # 0 /\ s.y.den # 0]_vars

----------------------------------------------------------------------------
(* Panning: pan sessions, strokes drawn, the image saved, the page loaded
   again *)

PanPositions == {Dev(1, 1), Dev(2, 2), Dev(1, 2)}

InitPan ==
    Start({NoRecord}, Watch({"saveImage", "dragCanvas"}, {}, MaxPanSteps))

NextPan ==
    \/ DragCanvas(PanPositions)
    \/ CanvasMouseUp
    \/ RecordCurrent({FREE_LINE})
    \/ CurrentAddPosition(HistPoints)
    \/ MoveSelectElement(HistPoints)
    \/ ClickSelectElement(HistPoints, MaxPanSteps)
    \/ SaveImage
    \/ Reload

SpecPan == InitPan /\ [][NextPan]_vars

(* C13: in every state the translation accumulated on the drawing surface
   is the pan offset originTranslate. *)
C13_SurfaceFollowsPan == ctxTranslate = originTranslate

----------------------------------------------------------------------------
(* Drawing: strokes begun with every kind on either layer of a board that
   holds a text box, points appended, the pointer lifted, the text box
   selected, undo *)

DrawRecords ==
    {[shape |-> "board",
      history |-> <<TextAt(2, 10, 10, 20, 20)>>,
      state |-> DefaultState(TwoLayers)]}

DrawKinds == {FREE_LINE, CLEAN_LINE, "none"}

DrawPoints == {Dev(100, 100)}

DrawPointer == {Dev(15, 15)}

InitDraw ==
    Start(DrawRecords,
          Watch({"recordCurrent", "currentAddPosition", "canvasMouseUp"},
                {"draw"}, MaxDrawSteps))

NextDraw ==
    \/ RecordCurrent(DrawKinds)
    \/ CurrentAddPosition(DrawPoints)
    \/ CanvasMouseUp
    \/ SetCurrentLayer({1, 2})
    \/ MoveSelectElement(DrawPointer)
    \/ ClickSelectElement(DrawPointer, MaxDrawSteps)
    \/ Undo

SpecDraw == InitDraw /\ [][NextDraw]_vars

(* The number of places of a stack that hold e. *)
Count(stack, e) == Cardinality({k \in 1..Len(stack) : stack[k] = e})

(* C14: recordCurrent with the kind of a stroke or of an eraser stroke
   leaves nothing selected, makes the current stack the elements it held
   and one new element, of that kind, without points, on the registry's
   current layer, and makes that element the append target; with any other
   kind the timeline, the cursor and the append target stay as they are. *)
C14_RecordCurrent ==
    [][lastCmd' = "recordCurrent"
          => IF obs'.kind \in {FREE_LINE, CLEAN_LINE}
             THEN LET old == cacheQueue[step]
                      new == cacheQueue'[step']
                      i == currentMoveEle'.i
                      rest == RemoveAt(new, i - 1)
                  IN /\ selectElementIndex' = -1
                     /\ Len(new) = Len(old) + 1
                     /\ currentMoveEle'.q = step' /\ i \in 1..Len(new)
                     /\ new[i].type = obs'.kind
                     /\ new[i].layer = layer.current
                     /\ new[i].positions = <<>>
                     /\ \A k \in 1..Len(old) :
                            Count(rest, old[k]) = Count(old, old[k])
             ELSE /\ cacheQueue' = cacheQueue /\ step' = step
                  /\ currentMoveEle' = currentMoveEle]_vars

C14_Witness ==
    /\ lastCmd = "recordCurrent" /\ obs.kind = CLEAN_LINE
    /\ layer.current = 2 /\ selectElementIndex = -1
    /\ Len(cacheQueue[step]) = 2
    /\ cacheQueue[step][currentMoveEle.i].layer = 2

(* The elements that have positions: strokes and eraser strokes. *)
IsStroke(e) == e.type \in {FREE_LINE, CLEAN_LINE}

(* C15: once the pointer is lifted, every stroke of the current stack has at
   least one point, and so has every stroke of the stored record at any
   time. *)
C15_StrokesHavePoints ==
    /\ lastCmd = "canvasMouseUp"
           => \A k \in 1..Len(cacheQueue[step]) :
                  IsStroke(cacheQueue[step][k])
                      => Len(cacheQueue[step][k].positions) >= 1
    /\ \A k \in 1..Len(storage.history) :
           IsStroke(storage.history[k])
               => Len(storage.history[k].positions) >= 1

(* C20: currentAddPosition changes no element of the timeline when no
   stroke has been begun since the last canvasMouseUp, and at any time it
   changes no element but the append target. *)
C20_AppendOnlyToActive ==
    [][lastCmd' = "currentAddPosition"
          => /\ Len(cacheQueue') = Len(cacheQueue) /\ step' = step
             /\ ~obs.armed => cacheQueue' = cacheQueue
             /\ \A q \in 1..Len(cacheQueue) :
                    /\ Len(cacheQueue'[q]) = Len(cacheQueue[q])
                    /\ \A i \in 1..Len(cacheQueue[q]) :
                           cacheQueue'[q][i] # cacheQueue[q][i]
                               => currentMoveEle = [q |-> q, i |-> i]]_vars

C20_Witness ==
    /\ lastCmd = "currentAddPosition" /\ ~obs.armed
    /\ \E k \in 1..Len(cacheQueue[step]) :
           /\ IsStroke(cacheQueue[step][k])
           /\ Len(cacheQueue[step][k].positions) = 1

----------------------------------------------------------------------------
(* Selection: a board that holds one text box, hovered, selected, dragged
   and deleted, with text boxes added and the timeline commands in between *)

SelectPointer == {Dev(15, 15), Dev(45, 45)}

InitSelect ==
    Start(StoreRecords,
          Watch({"deleteSelectElement", "canvasMouseUp"}, {"session"},
                MaxSelectSteps))

NextSelect ==
    \/ MoveSelectElement(SelectPointer)
    \/ ClickSelectElement(SelectPointer, MaxSelectSteps)
    \/ CanvasMouseUp
    \/ DeleteSelectElement
    \/ AddTextElement({"a"}, HistTexts)
    \/ Undo
    \/ Redo
    \/ Clean

SpecSelect == InitSelect /\ [][NextSelect]_vars

(* C16: deleteSelectElement with nothing selected leaves the timeline and
   the cursor as they are; with an element selected it adds one timeline
   entry after the cursor, the current stack without that element and with
   every other, keeps the entry it came from, and leaves nothing selected or
   hovered and no handle held. *)
C16_DeleteSelected ==
    [][lastCmd' = "deleteSelectElement"
          => IF selectElementIndex = -1
             THEN cacheQueue' = cacheQueue /\ step' = step
             ELSE /\ selectElementIndex + 1 \in 1..Len(cacheQueue[step])
                  /\ step' = step + 1 /\ Len(cacheQueue') = step + 1
                  /\ cacheQueue'[step] = cacheQueue[step]
                  /\ cacheQueue'[step'] =
                         RemoveAt(cacheQueue[step], selectElementIndex)
                  /\ Len(cacheQueue'[step']) = Len(cacheQueue[step]) - 1
                  /\ selectElementIndex' = -1
                  /\ mouseHoverElementIndex' = -1
                  /\ resizeType' = RESIZE_NULL]_vars

(* C18: in every state selectElementIndex and mouseHoverElementIndex are
   each -1 or the index of an element of the current stack, and no command
   fails on a missing element. *)
C18_IndicesInRange ==
    /\ selectElementIndex = -1 \/ HasElement(W, selectElementIndex)
    /\ mouseHoverElementIndex = -1 \/ HasElement(W, mouseHoverElementIndex)
    /\ ~threw

(* C19: a pointer-up pushes no timeline entry when undo(), redo(), clean()
   or deleteSelectElement() ran after the moves of the drag it ends. *)
C19_InterruptedDragNotCommitted ==
    [][(lastCmd' = "canvasMouseUp" /\ obs.cut)
           => cacheQueue' = cacheQueue /\ step' = step]_vars

----------------------------------------------------------------------------
(* Text: text boxes added with and without a value on either layer of a
   panned board, with an element selected or not *)

TextValues == {"a", ""}

InitText ==
    Start(DrawRecords, Watch({"addTextElement"}, {"draw"}, MaxTextSteps))

NextText ==
    \/ AddTextElement(TextValues, HistTexts)
    \/ DragCanvas(PanPositions)
    \/ CanvasMouseUp
    \/ SetCurrentLayer({1, 2})
    \/ MoveSelectElement(DrawPointer)
    \/ ClickSelectElement(DrawPointer, MaxTextSteps)

SpecText == InitText /\ [][NextText]_vars

(* C17: addTextElement with an empty value changes neither the timeline,
   the cursor, the selection nor the stored record; with a value it adds one
   timeline entry, the current stack followed by one text box with that
   value on the registry's current layer, whose rect is at the given
   position less the surface's origin and the pan offset. *)
C17_AddText ==
    [][lastCmd' = "addTextElement"
          => IF obs'.kind = ""
             THEN /\ cacheQueue' = cacheQueue /\ step' = step
                  /\ selectElementIndex' = selectElementIndex
                  /\ storage' = storage
             ELSE LET new == cacheQueue'[step']
                      t == new[Len(new)]
                  IN /\ step' = step + 1 /\ Len(cacheQueue') = step + 1
                     /\ Len(new) = Len(cacheQueue[step]) + 1
                     /\ SubSeq(new, 1, Len(new) - 1) = cacheQueue[step]
                     /\ t.type = TEXT /\ t.value = obs'.kind
                     /\ t.layer = layer.current
                     /\ t.rect.x = obs'.at.x - CanvasLeft - originTranslate.x
                     /\ t.rect.y = obs'.at.y - CanvasTop - originTranslate.y]_vars

C17_Witness ==
    /\ lastCmd = "addTextElement" /\ obs.kind = "a"
    /\ originTranslate = Pt(1, 1) /\ layer.current = 2
    /\ cacheQueue[step][Len(cacheQueue[step])].rect = Rect(9, 9, 20, 20)

----------------------------------------------------------------------------
(* Pan sessions: dragCanvas calls between pointer lifts, at positions inside
   the surface and on its left and top edges, with other commands in
   between *)

InitPanSession ==
    Start({NoRecord}, Watch({"dragCanvas"}, {"pan"}, MaxPanSteps))

NextPanSession ==
    \/ DragCanvas({Dev(1, 1), Dev(2, 2), Dev(1, 2), Dev(0, 1), Dev(1, 0)})
    \/ CanvasMouseUp
    \/ AddTextElement({"a"}, HistTexts)
    \/ Undo
    \/ Reload

SpecPanSession == InitPanSession /\ [][NextPanSession]_vars

(* C21: after the second and every later dragCanvas of a pan session, the
   pan offset has grown since the session began by the last position less
   the first one, in each axis. *)
C21_PanDisplacement ==
    (lastCmd = "dragCanvas" /\ obs.panN >= 2)
        => /\ originTranslate.x - obs.panFrom.x
                  = (originPosition.x + CanvasLeft) - obs.panP0.x
           /\ originTranslate.y - obs.panFrom.y
                  = (originPosition.y + CanvasTop) - obs.panP0.y

=============================================================================
